---- MODULE Spec2Model ----
(***************************************************************************)
(* Model of src/src/parser.js of wordpress-export-to-markdown: the         *)
(* extraction of posts from a parsed WordPress export, the collection of   *)
(* attached and scraped images, and the merge of the images into the       *)
(* posts.                                                                  *)
(*                                                                         *)
(* Text is modelled as a sequence of tokens, each token a fixed piece of   *)
(* text ("<img ", "src=\"", "photo", ".png", "/", ...).  The tokens are    *)
(* chosen so that the literals the code looks for ("<img", "src=\"", a     *)
(* quote, ">", a dot followed by an extension, "/") begin only at the      *)
(* start of a token: matching over tokens is then matching over the text.  *)
(***************************************************************************)
EXTENDS Integers, Sequences, FiniteSets, TLC

VARIABLES
    data,     \* the parsed export: data.rss.channel[0].item, a sequence of items
    config,   \* [postTypes, saveAttachedImages, saveScrapedImages]
    pc,       \* position in parseFilePromise
    posts,    \* the PostRecords (parser.js:16)
    images,   \* the ImageRefs (parser.js:18)
    idx,      \* number of images the forEach of mergeImagesIntoPosts has handled
    err       \* "none", or the error that rejected the promise

vars == <<data, config, pc, posts, images, idx, err>>

----------------------------------------------------------------------------
(* Values *)

\* JavaScript's undefined, null and the number -1: distinct from every string
\* the export holds.
Undefined == "#undefined"
Null == "#null"
NoId == "#-1"
TypeError == "#TypeError"

\* undefined where the value, when defined, is a text (a sequence of tokens)
NoText == <<Undefined>>

\* The lower-case form of a token (the patterns carry the flag i).
Lower(t) ==
    CASE t = "<IMG " -> "<img "
      [] t = "SRC=\"" -> "src=\""
      [] t = ".PNG" -> ".png"
      [] t = ".JPG" -> ".jpg"
      [] OTHER -> t

\* gif|jpe?g|png, each after a dot
ImageExts == {".gif", ".jpg", ".jpeg", ".png"}

IsImageExt(t) == Lower(t) \in ImageExts

\* /\.(gif|jpe?g|png)$/i
EndsWithImageExt(url) == Len(url) > 0 /\ IsImageExt(url[Len(url)])

----------------------------------------------------------------------------
(* URLs: <<origin, "/", segment tokens, "/", ...>> *)

Origins == {"https://example.com", "https://cdn.example.org"}

\* Index of the last "/" token of s, 0 when there is none.
LastSlash(s) ==
    LET S == {i \in 1..Len(s) : s[i] = "/"}
    IN  IF S = {} THEN 0 ELSE CHOOSE i \in S : \A j \in S : j <= i

\* The percent-encoding the URL parser applies to a path.
PercentEncode(t) ==
    CASE t = "<img " -> "%3Cimg%20"
      [] t = "<IMG " -> "%3CIMG%20"
      [] t = "src=\"" -> "src=%22"
      [] t = "SRC=\"" -> "SRC=%22"
      [] t = "\"" -> "%22"
      [] t = ">" -> "%3E"
      [] t = " " -> "%20"
      [] OTHER -> t

EncodePath(s) == [i \in 1..Len(s) |-> PercentEncode(s[i])]

\* new URL(ref, base).href for a base that is an absolute URL: an absolute
\* ref stands, a ref starting with "/" replaces the base's path, any other
\* ref replaces what follows the last "/" of the base's path.
ResolveDropsDirectory(ref, base) ==
    IF ref[1] \in Origins THEN <<ref[1]>> \o EncodePath(Tail(ref))
    ELSE <<base[1], "/">> \o EncodePath(IF ref[1] = "/" THEN Tail(ref) ELSE ref)

Resolve(ref, base) ==
    IF ref[1] \in Origins THEN <<ref[1]>> \o EncodePath(Tail(ref))
    ELSE IF ref[1] = "/" THEN <<base[1]>> \o EncodePath(ref)
    ELSE SubSeq(base, 1, LastSlash(base)) \o EncodePath(ref)

\* decodeURIComponent on a token
PercentDecode(t) ==
    CASE t = "%20" -> " "
      [] t = "%22" -> "\""
      [] t = "%3E" -> ">"
      [] OTHER -> t

\* shared.getFilenameFromUrl: the last path segment, decoded
getFilenameFromUrl(url) ==
    LET seg == SubSeq(url, LastSlash(url) + 1, Len(url))
    IN  [i \in 1..Len(seg) |-> PercentDecode(seg[i])]

----------------------------------------------------------------------------
(* The pattern of collectScrapedImages:                                    *)
(*   /<img[^>]*src="(.+?\.(?:gif|jpe?g|png))"[^>]*>/gi                     *)

\* Least index >= from whose token is ">", 0 when there is none.
NextGt(b, from) ==
    LET S == {i \in from..Len(b) : b[i] = ">"}
    IN  IF S = {} THEN 0 ELSE CHOOSE i \in S : \A j \in S : i <= j

\* (.+?\.(?:gif|jpe?g|png))"[^>]*> right after the src=" at j: the ends k of
\* the capture that let the rest of the pattern match.  "." matches no line
\* break, ".+?" takes at least one character before the dot.
CaptureEnds(b, j) ==
    {k \in (j + 2)..(Len(b) - 1) :
        /\ IsImageExt(b[k])
        /\ b[k + 1] = "\""
        /\ \A x \in (j + 1)..(k - 1) : b[x] # "\n"
        /\ NextGt(b, k + 2) # 0}

\* The src=" tokens that <img[^>]* can stop before, for the <img at i: those
\* up to the first ">" after i, with the rest of the pattern matching.
SrcStarts(b, i) ==
    LET g == NextGt(b, i + 1)
        last == IF g = 0 THEN Len(b) ELSE g - 1
    IN  {j \in (i + 1)..last : Lower(b[j]) = "src=\"" /\ CaptureEnds(b, j) # {}}

Min(S) == CHOOSE x \in S : \A y \in S : x <= y
Max(S) == CHOOSE x \in S : \A y \in S : y <= x

\* [^>]* is greedy: the last src=" that works.
PickSrc(S) == Max(S)

\* .+? is lazy: the first end that works.
PickEnd(S) == Min(S)

MatchesAt(b, i) == Lower(b[i]) = "<img " /\ SrcStarts(b, i) # {}

\* The match at i: the capture group and the index of the closing ">".
MatchAt(b, i) ==
    LET j == PickSrc(SrcStarts(b, i))
        k == PickEnd(CaptureEnds(b, j))
    IN  [group |-> SubSeq(b, j + 1, k), last |-> NextGt(b, k + 2)]

\* matchAll from index p on: leftmost match first, the search resumes after it.
RECURSIVE MatchAllFrom(_, _)
MatchAllFrom(b, p) ==
    LET S == {i \in p..Len(b) : MatchesAt(b, i)}
    IN  IF S = {} THEN <<>>
        ELSE LET m == MatchAt(b, Min(S))
             IN  <<m.group>> \o MatchAllFrom(b, m.last + 1)

\* [...postContent.matchAll(...)] mapped to match[1]
MatchAll(b) == MatchAllFrom(b, 1)

----------------------------------------------------------------------------
(* Items of the export.  An item is a record keyed by tag name; every      *)
(* value is the sequence of the tag's occurrences (xml2js), so post.f[0]   *)
(* is item.f[1], and a tag the item lacks is a key outside its domain.     *)

Has(post, f) == f \in DOMAIN post

\* post.f[0]: a TypeError when the item has no tag f
First(post, f) == IF Has(post, f) THEN post[f][1] ELSE TypeError

\* types.includes(x)
Includes(s, x) == \E i \in 1..Len(s) : s[i] = x

\* config.postTypes.split(','): postTypes is a sequence of tokens, each a
\* type name or ","; a piece is the text between two commas ("" when
\* there is none, as for the empty string).
RECURSIVE Split(_)
Split(s) ==
    LET C == {i \in 1..Len(s) : s[i] = ","}
    IN  IF C = {}
        THEN <<IF s = <<>> THEN "" ELSE s[1]>>
        ELSE LET c == Min(C)
             IN  <<IF c = 1 THEN "" ELSE s[1]>> \o Split(SubSeq(s, c + 1, Len(s)))

getItemsOfTypes(d, types) ==
    SelectSeq(d, LAMBDA item : Includes(types, item.post_type[1]))

getPostId_Lenient(post) == IF Has(post, "post_id") THEN post.post_id[1] ELSE Undefined

getPostId(post) == First(post, "post_id")

getPostSlug(post) == First(post, "post_name")

getPostCoverImageId(post) ==
    IF ~Has(post, "postmeta") THEN Undefined
    ELSE LET S == {i \in 1..Len(post.postmeta) :
                      post.postmeta[i].meta_key[1] = "_thumbnail_id"}
         IN  IF S = {} THEN Undefined ELSE post.postmeta[Min(S)].meta_value[1]

getPostType(post) == First(post, "post_type")

getPostTitle(post) == First(post, "title")

\* luxon.DateTime.fromRFC2822(s, { zone: 'utc' }).toISODate(): the calendar
\* date in UTC, null for a string that is no RFC 2822 date.
ToISODateUTC(s) ==
    CASE s = "Wed, 01 Jan 2020 00:00:00 +0000" -> "2020-01-01"
      [] s = "Tue, 31 Dec 2019 23:30:00 -0100" -> "2020-01-01"
      [] s = "Wed, 01 Jan 2020 00:30:00 +0100" -> "2019-12-31"
      [] OTHER -> Null

getPostDate(post) ==
    IF Has(post, "pubDate") THEN ToISODateUTC(post.pubDate[1]) ELSE TypeError

getLink(post) == First(post, "link")
getCreator(post) == First(post, "creator")
getDescription(post) == First(post, "description")
getCommentStatus(post) == First(post, "comment_status")
getPingStatus(post) == First(post, "ping_status")
isSticky(post) == First(post, "is_sticky")

\* c['$'].domain is c.attr.domain, c['_'] is c.text
TextsOfDomain(cs, domain) ==
    LET kept == SelectSeq(cs, LAMBDA c : c.attr.domain = domain)
    IN  [i \in 1..Len(kept) |-> kept[i].text]

getCategories(post) ==
    IF ~Has(post, "category") THEN <<>>
    ELSE TextsOfDomain(post.category, "category")

\* The guard reads post.tags, the list reads post.category.
getTags(post) ==
    IF ~Has(post, "tags") THEN <<>>
    ELSE TextsOfDomain(post.category, "post_tag")

\* post.category.filter throws when the item has <tags> and no <category>
getTagsThrows(post) == Has(post, "tags") /\ ~Has(post, "category")

\* translator.getPostContent: the body converted to Markdown
getPostContent(post) ==
    IF Has(post, "encoded") THEN <<"markdown of">> \o post.encoded[1] ELSE <<TypeError>>

\* The object literal of collectPosts' map; getTags is evaluated only when
\* it does not throw.
PostRecord(post) ==
    [meta |->
        [id |-> getPostId(post),
         slug |-> getPostSlug(post),
         coverImageId |-> getPostCoverImageId(post),
         imageUrls |-> <<>>,
         type |-> getPostType(post)],
     frontmatter |->
        [title |-> getPostTitle(post),
         date |-> getPostDate(post),
         slug |-> getPostSlug(post),
         link |-> getLink(post),
         creator |-> getCreator(post),
         description |-> getDescription(post),
         commentStatus |-> getCommentStatus(post),
         pingStatus |-> getPingStatus(post),
         isSticky |-> isSticky(post),
         categories |-> getCategories(post),
         tags |-> IF getTagsThrows(post) THEN <<>> ELSE getTags(post),
         coverImage |-> NoText],
     content |-> getPostContent(post)]

\* Building the record of post throws.
Throws(post) ==
    LET r == PostRecord(post)
    IN  \/ TypeError \in {r.meta.id, r.meta.slug, r.meta.type, r.frontmatter.title,
                          r.frontmatter.date, r.frontmatter.link, r.frontmatter.creator,
                          r.frontmatter.description, r.frontmatter.commentStatus,
                          r.frontmatter.pingStatus, r.frontmatter.isSticky}
        \/ getTagsThrows(post)
        \/ r.content = <<TypeError>>

StatusKept_DraftsToo(post) == post.status[1] # "trash"

\* post.status[0] !== 'trash' && post.status[0] !== 'draft'
StatusKept(post) == post.status[1] # "trash" /\ post.status[1] # "draft"

\* The items collectPosts maps
SelectedItems(d, cfg) ==
    SelectSeq(getItemsOfTypes(d, Split(cfg.postTypes)), StatusKept)

collectPostsThrows(d, cfg) ==
    \E i \in 1..Len(SelectedItems(d, cfg)) : Throws(SelectedItems(d, cfg)[i])

collectPosts(d, cfg) ==
    LET sel == SelectedItems(d, cfg)
    IN  [i \in 1..Len(sel) |-> PostRecord(sel[i])]

----------------------------------------------------------------------------
(* Image collection *)

\* attachment.attachment_url[0], post_id[0] or post_parent[0] of a missing tag
collectAttachedThrows(d) ==
    \E i \in 1..Len(d) :
        /\ d[i].post_type[1] = "attachment"
        /\ \/ ~Has(d[i], "attachment_url")
           \/ /\ EndsWithImageExt(d[i].attachment_url[1])
              /\ (~Has(d[i], "post_id") \/ ~Has(d[i], "post_parent"))

collectAttachedImages(d) ==
    LET att == SelectSeq(getItemsOfTypes(d, <<"attachment">>),
                         LAMBDA a : EndsWithImageExt(a.attachment_url[1]))
    IN  [i \in 1..Len(att) |->
            [id |-> att[i].post_id[1],
             postId |-> att[i].post_parent[1],
             url |-> att[i].attachment_url[1]]]

\* post.post_id[0], post.encoded[0] or post.link[0] of a missing tag
collectScrapedThrows(d, cfg) ==
    \E i \in 1..Len(d) :
        /\ Includes(Split(cfg.postTypes), d[i].post_type[1])
        /\ (~Has(d[i], "post_id") \/ ~Has(d[i], "encoded") \/ ~Has(d[i], "link"))

\* The ImageRefs of one item: one per match, in match order.
ScrapedOf(post) ==
    LET matches == MatchAll(post.encoded[1])
    IN  [i \in 1..Len(matches) |->
            [id |-> NoId,
             postId |-> post.post_id[1],
             url |-> Resolve(matches[i], post.link[1])]]

RECURSIVE FlatScraped(_)
FlatScraped(items) ==
    IF items = <<>> THEN <<>>
    ELSE ScrapedOf(Head(items)) \o FlatScraped(Tail(items))

collectScrapedImages(d, cfg) ==
    FlatScraped(getItemsOfTypes(d, Split(cfg.postTypes)))

----------------------------------------------------------------------------
(* mergeImagesIntoPosts *)

\* Names every object literal inherits from Object.prototype: postsLookup[k]
\* is truthy for them even when no post has the id k.
ObjectPrototypeKeys ==
    {"constructor", "toString", "valueOf", "hasOwnProperty", "__proto__"}

\* postsLookup[key] as an index into posts: the last post whose meta.id is
\* key (a later write replaces an earlier one), 0 when there is none.
LookupIndex(ps, key) ==
    LET S == {i \in 1..Len(ps) : ps[i].meta.id = key}
    IN  IF S = {} THEN 0 ELSE Max(S)

\* postsLookup[key] is an inherited member, which has no meta
LookupInherited(ps, key) == LookupIndex(ps, key) = 0 /\ key \in ObjectPrototypeKeys

SetCoverAlways(post, image) ==
    [post EXCEPT !.frontmatter.coverImage = getFilenameFromUrl(image.url)]

\* if (image.id === post.meta.coverImageId) ...
SetCover(post, image) ==
    IF image.id = post.meta.coverImageId
    THEN [post EXCEPT !.frontmatter.coverImage = getFilenameFromUrl(image.url)]
    ELSE post

AddUrlNoCheck(post, image) ==
    [post EXCEPT !.meta.imageUrls = Append(@, image.url)]

AddUrlInFront(post, image) ==
    IF Includes(post.meta.imageUrls, image.url) THEN post
    ELSE [post EXCEPT !.meta.imageUrls = <<image.url>> \o @]

\* if (!post.meta.imageUrls.includes(image.url)) push
AddUrl(post, image) ==
    IF Includes(post.meta.imageUrls, image.url) THEN post
    ELSE [post EXCEPT !.meta.imageUrls = Append(@, image.url)]

\* The body of the forEach for an image whose post was found
MergeImage(post, image) == AddUrl(SetCover(post, image), image)

----------------------------------------------------------------------------
(* parseFilePromise, one action per statement; the forEach of the merge    *)
(* is one action per image.                                                *)

\* const posts = collectPosts(data, config);
CollectPosts ==
    /\ pc = "start"
    /\ IF collectPostsThrows(data, config)
       THEN /\ err' = TypeError
            /\ pc' = "failed"
            /\ UNCHANGED posts
       ELSE /\ posts' = collectPosts(data, config)
            /\ pc' = "attached"
            /\ UNCHANGED err
    /\ UNCHANGED <<data, config, images, idx>>

\* images.push(...more)
PushAllInFront(imgs, more) == more \o imgs

PushAll(imgs, more) == imgs \o more

\* if (config.saveAttachedImages) images.push(...collectAttachedImages(data));
CollectAttached ==
    /\ pc = "attached"
    /\ IF config.saveAttachedImages /\ collectAttachedThrows(data)
       THEN /\ err' = TypeError
            /\ pc' = "failed"
            /\ UNCHANGED images
       ELSE /\ images' = IF config.saveAttachedImages
                         THEN PushAll(images, collectAttachedImages(data))
                         ELSE images
            /\ pc' = "scraped"
            /\ UNCHANGED err
    /\ UNCHANGED <<data, config, posts, idx>>

\* if (config.saveScrapedImages) images.push(...collectScrapedImages(data, config));
CollectScraped ==
    /\ pc = "scraped"
    /\ IF config.saveScrapedImages /\ collectScrapedThrows(data, config)
       THEN /\ err' = TypeError
            /\ pc' = "failed"
            /\ UNCHANGED images
       ELSE /\ images' = IF config.saveScrapedImages
                         THEN PushAll(images, collectScrapedImages(data, config))
                         ELSE images
            /\ pc' = "merge"
            /\ UNCHANGED err
    /\ UNCHANGED <<data, config, posts, idx>>

\* One turn of images.forEach in mergeImagesIntoPosts.
MergeStep ==
    /\ pc = "merge"
    /\ idx < Len(images)
    /\ LET image == images[idx + 1]
           t == LookupIndex(posts, image.postId)
       IN  IF LookupInherited(posts, image.postId)
           THEN \* post.meta is undefined: reading post.meta.coverImageId throws
                /\ err' = TypeError
                /\ pc' = "failed"
                /\ UNCHANGED <<posts, idx>>
           ELSE /\ posts' = IF t = 0 THEN posts
                            ELSE [posts EXCEPT ![t] = MergeImage(@, image)]
                /\ idx' = idx + 1
                /\ UNCHANGED <<pc, err>>
    /\ UNCHANGED <<data, config, images>>

\* return posts;
Return ==
    /\ pc = "merge"
    /\ idx = Len(images)
    /\ pc' = "done"
    /\ UNCHANGED <<data, config, posts, images, idx, err>>

Next == CollectPosts \/ CollectAttached \/ CollectScraped \/ MergeStep \/ Return

----------------------------------------------------------------------------
(* Inputs *)

\* Longest export (items) and longest body (chunks) that are explored.
MaxItems == 3
MaxChunks == 4

L1 == <<"https://example.com", "/", "post", "/">>
L2 == <<"https://example.com", "/", "post">>
U1 == <<"https://cdn.example.org", "/", "up", "/", "a", ".jpg">>
U2 == <<"https://cdn.example.org", "/", "up", "/", "b", ".PNG">>
U3 == <<"https://cdn.example.org", "/", "up", "/", "c", ".pdf">>
U4 == <<"https://cdn.example.org", "/", "up", "/", "d", ".gif">>

\* <img src="photo.png">
BodyPhoto == <<"<img ", "src=\"", "photo", ".png", "\"", ">">>
\* <img src="https://cdn.example.org/up/a.jpg">text<IMG src="photo.png">
BodyTwo == <<"<img ", "src=\"">> \o U1 \o <<"\"", ">", "text">>
           \o <<"<IMG ", "src=\"", "photo", ".png", "\"", ">">>
\* <img src="draft.png">
BodyDraft == <<"<img ", "src=\"", "draft", ".png", "\"", ">">>
BodyText == <<"text">>

\* An item with every tag parser.js reads from a post, and no category,
\* postmeta, tags or attachment_url.
Item(type, status, id, link, body) ==
    [post_type |-> <<type>>, status |-> <<status>>, post_id |-> <<id>>,
     post_parent |-> <<"0">>, post_name |-> <<"hello-world">>,
     pubDate |-> <<"Wed, 01 Jan 2020 00:30:00 +0100">>, link |-> <<link>>,
     creator |-> <<"admin">>, title |-> <<"Hello world">>, description |-> <<"">>,
     comment_status |-> <<"open">>, ping_status |-> <<"closed">>,
     is_sticky |-> <<"0">>, encoded |-> <<body>>]

With(item, f, v) == (f :> v) @@ item

Without(item, f) == [k \in DOMAIN item \ {f} |-> item[k]]

Cat(domain, text) == [attr |-> [domain |-> domain], text |-> text]

Thumbnail(id) == <<[meta_key |-> <<"_edit_last">>, meta_value |-> <<"1">>],
                   [meta_key |-> <<"_thumbnail_id">>, meta_value |-> <<id>>]>>

Attachment(id, parent, url) ==
    With(With(Item("attachment", "inherit", id, L2, <<>>), "post_parent", <<parent>>),
         "attachment_url", <<url>>)

ThreeCats == <<Cat("category", "News"), Cat("post_tag", "js"), Cat("nav_menu", "main"),
               Cat("category", "js")>>

\* Items that differ in type, status, missing tags and categories.
ExtractPool ==
    { With(Item("post", "publish", "1", L1, BodyPhoto), "category", ThreeCats),
      Item("page", "publish", "2", L2, BodyText),
      Item("post", "draft", "3", L1, BodyDraft),
      Without(Item("page", "trash", "4", L1, BodyText), "title"),
      Attachment("5", "1", U1),
      Without(Item("post", "publish", "6", L1, BodyText), "title"),
      Without(Item("post", "private", "7", L1, BodyText), "post_id"),
      Without(Item("page", "publish", "8", L1, BodyText), "pubDate"),
      With(With(Item("post", "publish", "9", L1, BodyText), "category", ThreeCats),
           "tags", <<"js">>),
      With(Item("post", "pending", "10", L1, BodyText), "tags", <<"js">>),
      With(With(Item("page", "publish", "11", L2, BodyText), "pubDate", <<"">>),
           "title", <<"">>) }

\* Items that differ in identifiers, parents, cover images and bodies.
MergePool ==
    { With(Item("post", "publish", "1", L1, BodyTwo), "postmeta", Thumbnail("42")),
      With(Item("page", "publish", "2", L2, BodyPhoto), "postmeta", Thumbnail("43")),
      Item("post", "draft", "3", L1, BodyDraft),
      Item("post", "trash", "1", L1, BodyDraft),
      With(With(Item("post", "publish", "1", L2, BodyPhoto), "postmeta", Thumbnail("-1")),
           "title", <<"Second">>),
      Attachment("42", "1", U1),
      Attachment("43", "0", U2),
      Attachment("44", "1", U3),
      Attachment("45", "constructor", U4) }

PostTypesPool == {<<"post">>, <<"post", ",", "page">>}

ExtractTypesPool == PostTypesPool \cup {<<>>, <<"attachment", ",", "post">>}

Configs(types) ==
    [postTypes : types, saveAttachedImages : BOOLEAN, saveScrapedImages : BOOLEAN]

SeqsUpTo(S, n) == UNION {[1..k -> S] : k \in 0..n}

InitWith(docs, cfgs) ==
    /\ data \in docs
    /\ config \in cfgs
    /\ pc = "start"
    /\ posts = <<>>
    /\ images = <<>>
    /\ idx = 0
    /\ err = "none"

InitExtract ==
    InitWith(SeqsUpTo(ExtractPool, MaxItems),
             {c \in Configs(ExtractTypesPool) :
                 c.saveAttachedImages /\ c.saveScrapedImages})

InitMerge == InitWith(SeqsUpTo(MergePool, MaxItems), Configs(PostTypesPool))

SpecExtract == InitExtract /\ [][Next]_vars

SpecMerge == InitMerge /\ [][Next]_vars

----------------------------------------------------------------------------
(* Properties of the extraction, checked under SpecExtract *)

\* The post types the configuration names.
TypeSet == {config.postTypes[i] : i \in 1..Len(config.postTypes)} \ {","}

\* Positions in the export of the items the claims call selected.
SelectedIdx ==
    {i \in 1..Len(data) :
        /\ data[i].post_type[1] \in TypeSet
        /\ data[i].status[1] \notin {"trash", "draft"}}

\* The k-th smallest element of a set of numbers.
KthOf(S, k) == CHOOSE x \in S : Cardinality({y \in S : y < x}) = k - 1

Returned == pc \in {"attached", "scraped", "merge", "done"}

\* C1: once collectPosts has returned, the posts are, in order, the items
\* whose type is in postTypes and whose status is neither trash nor draft:
\* as many records as such items, the k-th record carrying the post_id (and
\* type) of the k-th such item; a draft or trashed item yields no record.
C1_PostsAreSelectedItems ==
    Returned =>
        /\ Len(posts) = Cardinality(SelectedIdx)
        /\ \A k \in 1..Len(posts) :
              /\ posts[k].meta.id = data[KthOf(SelectedIdx, k)].post_id[1]
              /\ posts[k].meta.type = data[KthOf(SelectedIdx, k)].post_type[1]
              /\ posts[k].meta.type \in TypeSet

C1_Witness ==
    /\ pc = "done"
    /\ Len(data) = 3
    /\ Len(posts) = 2
    /\ posts[1].meta.id # posts[2].meta.id
    /\ \E i \in 1..Len(data) :
          data[i].status[1] = "draft" /\ data[i].post_type[1] \in TypeSet
    /\ data[3].post_type[1] \in TypeSet /\ 3 \in SelectedIdx

\* The texts of the entries of cs with the given domain, in order.
RECURSIVE EntryTexts(_, _)
EntryTexts(cs, domain) ==
    IF cs = <<>> THEN <<>>
    ELSE (IF Head(cs).attr.domain = domain THEN <<Head(cs).text>> ELSE <<>>)
         \o EntryTexts(Tail(cs), domain)

\* C2: for every post built from an item with category entries, the entries
\* with domain category are (as texts, in order) frontmatter.categories,
\* the entries with domain post_tag are frontmatter.tags, and an entry with
\* another domain is in neither.
C2_CategoryTagPartition ==
    Returned =>
        \A k \in 1..Len(posts) :
            LET item == data[KthOf(SelectedIdx, k)]
            IN  Has(item, "category") =>
                  /\ posts[k].frontmatter.categories = EntryTexts(item.category, "category")
                  /\ posts[k].frontmatter.tags = EntryTexts(item.category, "post_tag")

\* Selected items that lack post_id, pubDate or title.
LackingIdx ==
    {i \in SelectedIdx :
        ~Has(data[i], "post_id") \/ ~Has(data[i], "pubDate") \/ ~Has(data[i], "title")}

\* C8: when a selected item lacks post_id, pubDate or title, collectPosts
\* fails with an error and returns no record; no record ever has an
\* undefined id, date or title.
C8_MissingFieldFails ==
    /\ (pc # "start" /\ LackingIdx # {}) =>
          (pc = "failed" /\ err = TypeError /\ posts = <<>>)
    /\ \A k \in 1..Len(posts) :
          /\ posts[k].meta.id \notin {Undefined, TypeError}
          /\ posts[k].frontmatter.date \notin {Undefined, TypeError}
          /\ posts[k].frontmatter.title \notin {Undefined, TypeError}

C8_Witness ==
    /\ pc = "failed"
    /\ Len(data) = 3
    /\ Cardinality(SelectedIdx) = 3
    /\ LackingIdx = {3}
    /\ ~Has(data[3], "pubDate")

----------------------------------------------------------------------------
(* Properties of the merge, checked under SpecMerge *)

\* Attachment items of the export whose URL has an image extension.
ImageAttachments ==
    {i \in 1..Len(data) :
        /\ data[i].post_type[1] = "attachment"
        /\ Lower(data[i].attachment_url[1][Len(data[i].attachment_url[1])]) \in ImageExts}

\* C3: with attached images enabled, after the merge every post whose
\* coverImageId is the post_id of an image attachment has that attachment's
\* filename as frontmatter.coverImage.
C3_CoverImageFromAttachment ==
    (pc = "done" /\ config.saveAttachedImages) =>
        \A p \in 1..Len(posts) : \A a \in ImageAttachments :
            data[a].post_id[1] = posts[p].meta.coverImageId =>
                posts[p].frontmatter.coverImage
                    = getFilenameFromUrl(data[a].attachment_url[1])

\* Positions among the handled images of the refs owned by post p.
OwnedBy(p) == {i \in 1..idx : images[i].postId = posts[p].meta.id}

\* No later post has the identifier of post p.
LastWithId(p) == \A q \in (p + 1)..Len(posts) : posts[q].meta.id # posts[p].meta.id

\* Position of the first handled ref of post p with the given url.
FirstPos(p, url) == Min({i \in OwnedBy(p) : images[i].url = url})

\* C4: at every point of the merge, a post's imageUrls holds no URL twice,
\* each of its URLs is the url of a handled ref owned by the post, its URLs
\* stand in the order of their first occurrence among those refs, and for
\* the post that carries an identifier (the last one, should two posts
\* share it) every handled ref it owns has its url in the list: two refs
\* with one URL, attached and scraped, give exactly one entry.
C4_ImageUrlsDeduped ==
    \A p \in 1..Len(posts) :
        LET urls == posts[p].meta.imageUrls
        IN  /\ \A a, b \in 1..Len(urls) : urls[a] = urls[b] => a = b
            /\ \A a \in 1..Len(urls) : \E i \in OwnedBy(p) : images[i].url = urls[a]
            /\ \A a, b \in 1..Len(urls) :
                  a < b => FirstPos(p, urls[a]) < FirstPos(p, urls[b])
            /\ LastWithId(p) =>
                  \A i \in OwnedBy(p) :
                      Cardinality({a \in 1..Len(urls) : urls[a] = images[i].url}) = 1

C4_Witness ==
    /\ pc = "done"
    /\ \E p \in 1..Len(posts) :
          /\ Len(posts[p].meta.imageUrls) = 2
          /\ \E i, j \in OwnedBy(p) :
                /\ images[i].id # NoId
                /\ images[j].id = NoId
                /\ images[i].url = images[j].url

\* The image the forEach handles next belongs to no post.
NextIsOrphan ==
    /\ pc = "merge"
    /\ idx < Len(images)
    /\ \A p \in 1..Len(posts) : posts[p].meta.id # images[idx + 1].postId

\* C5: an image whose postId is the meta.id of no post is passed over: no
\* error, no post changed, and the forEach goes on to the next image.
C5_OrphansDroppedSilently ==
    [][NextIsOrphan => (err' = err /\ posts' = posts /\ pc' = "merge" /\ idx' = idx + 1)]_vars

\* URLs of the image attachments whose parent is post p.
AttachedUrls(p) ==
    {data[a].attachment_url[1] :
        a \in {x \in ImageAttachments : data[x].post_parent[1] = posts[p].meta.id}}

Elems(s) == {s[i] : i \in 1..Len(s)}

\* C7: the images are the attached refs followed by the scraped refs, of
\* the enabled sources only; so in a post's imageUrls the URLs of its
\* attachments precede the URLs that only its scraped refs carry, and with
\* neither source enabled every post ends with no imageUrls and no
\* coverImage.
C7_AttachedBeforeScraped ==
    /\ \A i, j \in 1..Len(images) :
          (i < j /\ images[j].id # NoId) => images[i].id # NoId
    /\ ~config.saveAttachedImages => \A i \in 1..Len(images) : images[i].id = NoId
    /\ ~config.saveScrapedImages => \A i \in 1..Len(images) : images[i].id # NoId
    /\ pc \in {"merge", "done"} =>
          /\ config.saveAttachedImages =>
                Len(SelectSeq(images, LAMBDA r : r.id # NoId)) = Cardinality(ImageAttachments)
          /\ config.saveScrapedImages =>
                SelectSeq(images, LAMBDA r : r.id = NoId) = collectScrapedImages(data, config)
    /\ \A p \in 1..Len(posts) :
          LET urls == posts[p].meta.imageUrls
          IN  /\ config.saveAttachedImages =>
                    \A a, b \in 1..Len(urls) :
                        (a < b /\ urls[b] \in AttachedUrls(p)) => urls[a] \in AttachedUrls(p)
              /\ ~config.saveScrapedImages => Elems(urls) \subseteq AttachedUrls(p)
              /\ (~config.saveAttachedImages /\ ~config.saveScrapedImages) =>
                    (urls = <<>> /\ posts[p].frontmatter.coverImage = NoText)

C7_Witness ==
    /\ pc = "done"
    /\ config.saveAttachedImages /\ config.saveScrapedImages
    /\ \E p \in 1..Len(posts) :
          LET urls == posts[p].meta.imageUrls
          IN  /\ Len(urls) = 2
              /\ urls[1] \in AttachedUrls(p)
              /\ urls[2] \notin AttachedUrls(p)
              /\ data[1].post_type[1] # "attachment"

\* A post without the two fields the merge writes.
Frame(post) ==
    [post EXCEPT !.frontmatter.coverImage = NoText, !.meta.imageUrls = <<>>]

IsPrefix(s, t) == Len(s) <= Len(t) /\ SubSeq(t, 1, Len(s)) = s

\* C9: a step of the merge leaves the number and order of the posts and
\* every field of a post but frontmatter.coverImage and meta.imageUrls as
\* they were, and imageUrls only grows at its end.
C9_MergeFrame ==
    [][pc = "merge" =>
          /\ Len(posts') = Len(posts)
          /\ \A p \in 1..Len(posts) :
                /\ Frame(posts'[p]) = Frame(posts[p])
                /\ IsPrefix(posts[p].meta.imageUrls, posts'[p].meta.imageUrls)]_vars

C9_Witness ==
    /\ pc = "done"
    /\ Len(posts) = 2
    /\ \E p \in 1..Len(posts) :
          /\ Len(posts[p].meta.imageUrls) = 2
          /\ posts[p].frontmatter.coverImage # NoText

\* No two items of the export share a post_id.
UniqueIds ==
    \A i, j \in 1..Len(data) : data[i].post_id[1] = data[j].post_id[1] => i = j

\* C10: for an export of unique identifiers, when parseFilePromise returns
\* a post's imageUrls holds exactly the urls of the collected refs whose
\* postId is the post's id; no post has the id of a draft or trashed item,
\* so the refs scraped from such an item reach no post; and a coverImage
\* is always the filename of an attached ref of the post whose id is the
\* post's coverImageId.
C10_ImagesOfOwnPostOnly ==
    (pc = "done" /\ UniqueIds) =>
        \A p \in 1..Len(posts) :
            /\ Elems(posts[p].meta.imageUrls)
                  = {images[i].url : i \in {x \in 1..Len(images) :
                                               images[x].postId = posts[p].meta.id}}
            /\ \A i \in 1..Len(data) :
                  data[i].status[1] \in {"draft", "trash"} =>
                      data[i].post_id[1] # posts[p].meta.id
            /\ posts[p].frontmatter.coverImage # NoText =>
                  \E i \in 1..Len(images) :
                      /\ images[i].id # NoId
                      /\ images[i].id = posts[p].meta.coverImageId
                      /\ images[i].postId = posts[p].meta.id
                      /\ posts[p].frontmatter.coverImage = getFilenameFromUrl(images[i].url)

C10_Witness ==
    /\ pc = "done"
    /\ UniqueIds
    /\ config.saveScrapedImages
    /\ \E p \in 1..Len(posts) : Len(posts[p].meta.imageUrls) = 2
    /\ \E i \in 1..Len(data) :
          /\ data[i].status[1] = "draft"
          /\ data[i].post_type[1] \in TypeSet
          /\ \E x \in 1..Len(images) : images[x].postId = data[i].post_id[1]

----------------------------------------------------------------------------
(* collectScrapedImages on its own: an export of one item whose body is    *)
(* any sequence of at most MaxChunks chunks.                               *)

TagOpen == <<"<img ", "src=\"", "photo">>

Chunks ==
    {<<"<img ">>, <<"src=\"">>, <<"\"">>, <<">">>, <<"photo">>, <<".png">>,
     TagOpen, BodyPhoto}

RECURSIVE Concat(_)
Concat(ss) == IF ss = <<>> THEN <<>> ELSE Head(ss) \o Concat(Tail(ss))

Bodies == {Concat(cs) : cs \in SeqsUpTo(Chunks, MaxChunks)}

ScrapeItems ==
    {Item(ts[1], ts[2], "7", link, body) :
        ts \in {<<"post", "publish">>, <<"post", "draft">>, <<"page", "publish">>},
        link \in {L1, L2},
        body \in Bodies}

InitScrape ==
    /\ data \in {<<item>> : item \in ScrapeItems}
    /\ config = [postTypes |-> <<"post">>, saveAttachedImages |-> FALSE,
                 saveScrapedImages |-> TRUE]
    /\ pc = "input"
    /\ posts = <<>>
    /\ images = <<>>
    /\ idx = 0
    /\ err = "none"

\* collectScrapedImages(data, config) applied to the input
ScrapeOnly ==
    /\ pc = "input"
    /\ images' = collectScrapedImages(data, config)
    /\ pc' = "output"
    /\ UNCHANGED <<data, config, posts, idx, err>>

NextScrape == ScrapeOnly

SpecScrape == InitScrape /\ [][NextScrape]_vars

\* The token holds a double quote.
HasQuote(t) == t \in {"\"", "src=\"", "SRC=\""}

\* The src values of the <img> tags of b as the claim reads them: an "<img",
\* no ">" up to a src=", then a value without a quote that ends in an image
\* extension, the closing quote, and a ">" further on.
TagSrcs(b) ==
    {SubSeq(b, t[2] + 1, t[3]) :
        t \in {u \in (1..Len(b)) \X (1..Len(b)) \X (1..Len(b)) :
                  /\ u[1] < u[2] /\ u[2] < u[3] /\ u[3] < Len(b)
                  /\ Lower(b[u[1]]) = "<img "
                  /\ Lower(b[u[2]]) = "src=\""
                  /\ \A x \in (u[1] + 1)..(u[2] - 1) : b[x] # ">"
                  /\ \A x \in (u[2] + 1)..u[3] : ~HasQuote(b[x])
                  /\ IsImageExt(b[u[3]])
                  /\ b[u[3] + 1] = "\""
                  /\ NextGt(b, u[3] + 2) # 0}}

RefOf(item, url) == [id |-> NoId, postId |-> item.post_id[1], url |-> url]

TagAt(b, i) ==
    LET J == {j \in (i + 1)..Len(b) : Lower(b[j]) = "src=\""}
        j == IF J = {} THEN 0 ELSE Min(J)
        Q == {q \in (j + 1)..Len(b) : HasQuote(b[q])}
        q == IF j = 0 \/ Q = {} THEN 0 ELSE Min(Q)
        m == IF q = 0 THEN 0 ELSE NextGt(b, q + 1)
    IN  [ok |-> /\ m # 0
                /\ \A x \in (i + 1)..(j - 1) : b[x] # ">"
                /\ b[q] = "\""
                /\ q - 1 >= j + 2
                /\ IsImageExt(b[q - 1])
                /\ \A x \in (j + 1)..(q - 1) : b[x] # "\n"
                /\ \A x \in (q + 1)..(m - 1) : Lower(b[x]) # "src=\"",
         from |-> j + 1, to |-> q - 1, last |-> m]

\* The src values of b from index p on, when every "<img" and every src="
\* outside a tag of that form starts such a tag; <<"#ill-formed">> otherwise.
RECURSIVE ProperSrcs(_, _)
ProperSrcs(b, p) ==
    IF p > Len(b) THEN <<>>
    ELSE IF Lower(b[p]) = "src=\"" THEN <<"#ill-formed">>
    ELSE IF Lower(b[p]) # "<img " THEN ProperSrcs(b, p + 1)
    ELSE LET t == TagAt(b, p)
         IN  IF ~t.ok THEN <<"#ill-formed">>
             ELSE LET rest == ProperSrcs(b, t.last + 1)
                  IN  IF rest = <<"#ill-formed">> THEN rest
                      ELSE <<SubSeq(b, t.from, t.to)>> \o rest

WellFormed(b) == ProperSrcs(b, 1) # <<"#ill-formed">>

====
